---- MODULE Spec2Model ----
(***************************************************************************)
(* Model of alpaca/device.py: the HTTP/JSON communication layer shared by  *)
(* every ASCOM Alpaca device (Device._get, Device._put,                    *)
(* Device.__check_error), the class variables _client_id,                  *)
(* _client_trans_id and _ctid_lock shared by all Device instances, and     *)
(* the public operations built on them.                                    *)
(*                                                                         *)
(* Each thread runs one public operation at a time.  A call is cut at the  *)
(* points where another thread can observe or change shared state: the     *)
(* read of the class variables that builds pdata (lines 304-307), the      *)
(* lock acquire (310), the transport call (311), the increment (312), the  *)
(* release in the finally clause (314) and the error check (315).          *)
(***************************************************************************)
EXTENDS Integers, Sequences, FiniteSets, TLC

\* ---------------------------------------------------------------- bounds
NumThreads == 2
MaxCalls == 2

Threads == 1..NumThreads

\* ------------------------------------------------------- program constants
API_VERSION == 1

\* ------------------------------------------------------------- formatting
Digit(d) ==
    CASE d = 0 -> "0" [] d = 1 -> "1" [] d = 2 -> "2" [] d = 3 -> "3"
      [] d = 4 -> "4" [] d = 5 -> "5" [] d = 6 -> "6" [] d = 7 -> "7"
      [] d = 8 -> "8" [] d = 9 -> "9"

RECURSIVE DecStr(_)
\* f"{n}" / "%d" % n for a non-negative integer: its decimal digits.
DecStr(n) == IF n < 10 THEN Digit(n) ELSE DecStr(n \div 10) \o Digit(n % 10)

\* Python's None.
None == [none |-> TRUE]

\* ---------------------------------------------------------------- devices
\* The Device instance each thread works on (constructor arguments).
DeviceOf(t) ==
    IF t = 1
    THEN [protocol |-> "http", address |-> "localhost:11111",
          device_type |-> "telescope", device_number |-> 0]
    ELSE [protocol |-> "http", address |-> "localhost:11111",
          device_type |-> "camera", device_number |-> t]

base_url(dev) ==
    dev.protocol \o "://" \o dev.address \o "/api/v" \o DecStr(API_VERSION)
      \o "/" \o dev.device_type \o "/" \o DecStr(dev.device_number)

\* ------------------------------------------------------ public operations
\* Each public operation is one call of _get or _put: the caller's
\* arguments, the verb, the attribute, the keyword arguments (**data) it
\* passes to _get/_put, and what it does with the
\* value _get/_put hands back ("Value": index ["Value"]; "self": return it
\* unchanged; "None": drop it).
ActionNoParameters(ActionName, Parameters) ==
    [name |-> "Action", args |-> <<ActionName, Parameters>>,
     verb |-> "PUT", attribute |-> "action",
     data |-> [Action |-> ActionName], post |-> "Value"]

Action(ActionName, Parameters) ==
    [name |-> "Action", args |-> <<ActionName, Parameters>>,
     verb |-> "PUT", attribute |-> "action",
     data |-> [Action |-> ActionName, Parameters |-> Parameters],
     post |-> "Value"]

CommandBlind(Command, Raw) ==
    [name |-> "CommandBlind", args |-> <<Command, Raw>>,
     verb |-> "PUT", attribute |-> "commandblind",
     data |-> [Command |-> Command, Raw |-> Raw], post |-> "None"]

ConnectedGet ==
    [name |-> "Connected", args |-> <<>>,
     verb |-> "GET", attribute |-> "connected",
     data |-> <<>>, post |-> "self"]

ConnectedSet(ConnectedState) ==
    [name |-> "Connected.setter", args |-> <<ConnectedState>>,
     verb |-> "PUT", attribute |-> "connected",
     data |-> [Connected |-> ConnectedState], post |-> "None"]

Name ==
    [name |-> "Name", args |-> <<>>,
     verb |-> "GET", attribute |-> "name",
     data |-> <<>>, post |-> "self"]

\* The calls a single caller makes in SeqSpec, and the two (one read, one
\* write) the concurrent callers of Spec make.
AllOps ==
    {Action("home", <<>>), Action("slew", <<"fast">>),
     CommandBlind(":GR#", TRUE), ConnectedGet, ConnectedSet(TRUE),
     ConnectedSet(FALSE), Name}

ConcurrentOps == {ConnectedGet, Action("home", <<>>)}

\* -------------------------------------------------------------- responses
\* What the server may answer: a status code and the JSON envelope.
Statuses == {200, 203, 204, 500}

ErrorNumbers ==
    {0, 1, 1023, 1024, 1025, 1026, 1027, 1031, 1032, 1033, 1034, 1035, 1036,
     1037, 1279, 1280, 2457, 4095, 4096, -1}

Envelope(n) ==
    [Value |-> "v", ErrorNumber |-> n,
     ErrorMessage |-> IF n = 0 THEN "" ELSE "msg"]

\* response.text: the raw body.
Text(j) ==
    "{ErrorNumber: " \o (IF j.ErrorNumber < 0 THEN "-" \o DecStr(-j.ErrorNumber)
                          ELSE DecStr(j.ErrorNumber))
      \o ", ErrorMessage: " \o j.ErrorMessage \o "}"

Response(status, n, url) ==
    [status_code |-> status, json |-> Envelope(n), text |-> Text(Envelope(n)),
     url |-> url]

AllResponses == {[status |-> s, n |-> n] : s \in Statuses, n \in ErrorNumbers}

ConcurrentResponses ==
    {[status |-> 200, n |-> 0], [status |-> 200, n |-> 1032],
     [status |-> 500, n |-> 0]}

\* ------------------------------------------------------------ error check
Exc(name, a, b) == [exc |-> name, args |-> <<a, b>>]

\* The chain of lines 358-377 with the driver range tested first, from 0x400.
ClassifyRangeFirst(n, m) ==
    IF n >= 1024 /\ n <= 4095 THEN Exc("DriverException", n, m)
    ELSE Exc("UnknownAscomException", n, m)

\* Lines 358-377: the exception raised for a non-zero ErrorNumber.
Classify(n, m) ==
    IF n = 1024 THEN Exc("NotImplementedException", n, m)
    ELSE IF n = 1025 THEN Exc("InvalidValueException", n, m)
    ELSE IF n = 1026 THEN Exc("ValueNotSetException", n, m)
    ELSE IF n = 1031 THEN Exc("NotConnectedException", n, m)
    ELSE IF n = 1032 THEN Exc("ParkedException", n, m)
    ELSE IF n = 1033 THEN Exc("SlavedException", n, m)
    ELSE IF n = 1035 THEN Exc("InvalidOperationException", n, m)
    ELSE IF n = 1036 THEN Exc("ActionNotImplementedException", n, m)
    ELSE IF n >= 1280 /\ n <= 4095 THEN Exc("DriverException", n, m)
    ELSE Exc("UnknownAscomException", n, m)

\* check_error that inspects the body of every 2xx response.
check_errorAny2xx(response) ==
    IF response.status_code \in 200..299
    THEN LET j == response.json
             n == j.ErrorNumber
             m == j.ErrorMessage
         IN  IF n # 0 THEN Classify(n, m) ELSE None
    ELSE Exc("AlpacaRequestException", response.status_code,
             response.text \o " (URL " \o response.url \o ")")

\* Device.__check_error: None when it returns, else the exception raised.
check_error(response) ==
    IF response.status_code \in 200..203
    THEN LET j == response.json
             n == j.ErrorNumber
             m == j.ErrorMessage
         IN  IF n # 0 THEN Classify(n, m) ELSE None
    ELSE Exc("AlpacaRequestException", response.status_code,
             response.text \o " (URL " \o response.url \o ")")

\* ------------------------------------------------------------------ state
VARIABLES
    _client_id,         \* Device._client_id (class variable)
    _client_trans_id,   \* Device._client_trans_id (class variable)
    _ctid_lock,         \* Device._ctid_lock: 0 when free, else the holder
    pc,                 \* pc[t]: where thread t is in its call
    op,                 \* op[t]: the public operation thread t is running
    pdata,              \* pdata[t]: the local pdata of _get/_put
    response,           \* response[t]: the local response of _get/_put
    pending,            \* pending[t]: the exception propagating through finally
    result,             \* result[t]: what the call hands to its caller
    sent,               \* the requests handed to the transport, in order
    sentBy,             \* sentBy[t]: transport calls made by t's current call
    calls,              \* calls started so far
    completed           \* calls that have returned or raised

vars ==
    <<_client_id, _client_trans_id, _ctid_lock, pc, op, pdata, response,
      pending, result, sent, sentBy, calls, completed>>

\* random.randint(0, 65535), drawn once when the class is created.
ClientIds == {0, 65535}

Init ==
    /\ _client_id \in ClientIds
    /\ _client_trans_id = 1
    /\ _ctid_lock = 0
    /\ pc = [t \in Threads |-> "idle"]
    /\ op = [t \in Threads |-> None]
    /\ pdata = [t \in Threads |-> None]
    /\ response = [t \in Threads |-> None]
    /\ pending = [t \in Threads |-> None]
    /\ result = [t \in Threads |-> None]
    /\ sent = <<>>
    /\ sentBy = [t \in Threads |-> 0]
    /\ calls = 0
    /\ completed = 0

\* ---------------------------------------------------------------- helpers
\* BuildPdata with the ClientID field filled from the transaction counter.
BuildPdataIdFromCounter(ctid, cid, data) ==
    data @@ [ClientTransactionID |-> DecStr(ctid), ClientID |-> DecStr(ctid)]

\* Lines 304-308 / 327-331: pdata, then pdata.update(data).
BuildPdata(ctid, cid, data) ==
    data @@ [ClientTransactionID |-> DecStr(ctid), ClientID |-> DecStr(cid)]

\* The URL of lines 311 / 334.
Url(t) == base_url(DeviceOf(t)) \o "/" \o op[t].attribute

\* The transport call of lines 311 / 334: requests.get(url, params = pdata)
\* or requests.put(url, data = pdata).
Request(t) ==
    IF op[t].verb = "GET"
    THEN [method |-> "GET", url |-> Url(t), params |-> pdata[t], data |-> None]
    ELSE [method |-> "PUT", url |-> Url(t), params |-> None, data |-> pdata[t]]

\* What the server sees of a request: its identity fields.
Identity(t) ==
    [ClientID |-> pdata[t].ClientID,
     ClientTransactionID |-> pdata[t].ClientTransactionID]

\* Lines 316 / 339, then the public operation's own return statement.
ReturnValue(o, r) ==
    LET inner == IF o.verb = "GET" THEN r.json.Value ELSE r.json
    IN  CASE o.post = "Value" -> inner.Value
          [] o.post = "self"  -> inner
          [] o.post = "None"  -> None

Returned(v) == [kind |-> "return", value |-> v]
Raised(e) == [kind |-> "raise", exc |-> e.exc, args |-> e.args]

\* An exception raised by requests.get / requests.put itself.
TransportException == [exc |-> "ConnectionError", args |-> <<>>]

\* ---------------------------------------------------------------- actions
\* A caller enters a public operation; _get/_put build pdata from the class
\* variables (lines 303-308 / 326-331), before the lock is taken.
Call(t, Ops) ==
    /\ pc[t] = "idle"
    /\ calls < MaxCalls
    /\ \E o \in Ops :
         /\ op' = [op EXCEPT ![t] = o]
         /\ pdata' = [pdata EXCEPT
                        ![t] = BuildPdata(_client_trans_id, _client_id, o.data)]
    /\ pc' = [pc EXCEPT ![t] = "acquire"]
    /\ sentBy' = [sentBy EXCEPT ![t] = 0]
    /\ calls' = calls + 1
    /\ UNCHANGED <<_client_id, _client_trans_id, _ctid_lock, response,
                   pending, result, sent, completed>>

\* Acquire that takes the lock without waiting for it to be free.
AcquireNoWait(t) ==
    /\ pc[t] = "acquire"
    /\ _ctid_lock' = t
    /\ pc' = [pc EXCEPT ![t] = "request"]
    /\ UNCHANGED <<_client_id, _client_trans_id, op, pdata, response, pending,
                   result, sent, sentBy, calls, completed>>

\* Line 310 / 333: Device._ctid_lock.acquire() blocks until the lock is free.
Acquire(t) ==
    /\ pc[t] = "acquire"
    /\ _ctid_lock = 0
    /\ _ctid_lock' = t
    /\ pc' = [pc EXCEPT ![t] = "request"]
    /\ UNCHANGED <<_client_id, _client_trans_id, op, pdata, response, pending,
                   result, sent, sentBy, calls, completed>>

\* Line 311 / 334: the request is handed to the transport.
SendRequest(t) ==
    /\ pc[t] = "request"
    /\ sent' = Append(sent, Identity(t))
    /\ sentBy' = [sentBy EXCEPT ![t] = @ + 1]
    /\ pc' = [pc EXCEPT ![t] = "inflight"]
    /\ UNCHANGED <<_client_id, _client_trans_id, _ctid_lock, op, pdata,
                   response, pending, result, calls, completed>>

\* Line 311 / 334: the transport call returns a response.
TransportReturns(t, Rs) ==
    /\ pc[t] = "inflight"
    /\ \E r \in Rs :
         response' = [response EXCEPT ![t] = Response(r.status, r.n, Url(t))]
    /\ pc' = [pc EXCEPT ![t] = "increment"]
    /\ UNCHANGED <<_client_id, _client_trans_id, _ctid_lock, op, pdata, pending,
                   result, sent, sentBy, calls, completed>>

\* Line 311 / 334: the transport call raises; control goes to the finally
\* clause, past the increment.
TransportRaises(t) ==
    /\ pc[t] = "inflight"
    /\ pending' = [pending EXCEPT ![t] = TransportException]
    /\ pc' = [pc EXCEPT ![t] = "finally"]
    /\ UNCHANGED <<_client_id, _client_trans_id, _ctid_lock, op, pdata,
                   response, result, sent, sentBy, calls, completed>>

\* Line 312 / 335: Device._client_trans_id += 1.
Increment(t) ==
    /\ pc[t] = "increment"
    /\ _client_trans_id' = _client_trans_id + 1
    /\ pc' = [pc EXCEPT ![t] = "finally"]
    /\ UNCHANGED <<_client_id, _ctid_lock, op, pdata, response, pending,
                   result, sent, sentBy, calls, completed>>

\* Release without the finally clause: an exception raised by the transport
\* leaves the call with the lock still held.
ReleaseNoFinally(t) ==
    /\ pc[t] = "finally"
    /\ IF pending[t] # None
       THEN /\ _ctid_lock' = _ctid_lock
            /\ result' = [result EXCEPT ![t] = Raised(pending[t])]
            /\ pc' = [pc EXCEPT ![t] = "done"]
       ELSE /\ _ctid_lock' = 0
            /\ result' = result
            /\ pc' = [pc EXCEPT ![t] = "check"]
    /\ UNCHANGED <<_client_id, _client_trans_id, op, pdata, response, pending,
                   sent, sentBy, calls, completed>>

\* Lines 313-314 / 336-337: finally: Device._ctid_lock.release(); a pending
\* exception then leaves the call.
Release(t) ==
    /\ pc[t] = "finally"
    /\ _ctid_lock' = 0
    /\ IF pending[t] # None
       THEN /\ result' = [result EXCEPT ![t] = Raised(pending[t])]
            /\ pc' = [pc EXCEPT ![t] = "done"]
       ELSE /\ result' = result
            /\ pc' = [pc EXCEPT ![t] = "check"]
    /\ UNCHANGED <<_client_id, _client_trans_id, op, pdata, response, pending,
                   sent, sentBy, calls, completed>>

\* CheckError that sends the request again when the error check raises.
CheckErrorRetry(t) ==
    /\ pc[t] = "check"
    /\ LET e == check_error(response[t])
       IN  IF e # None
           THEN /\ result' = result
                /\ pc' = [pc EXCEPT ![t] = "acquire"]
           ELSE /\ result' = [result EXCEPT
                                ![t] = Returned(ReturnValue(op[t], response[t]))]
                /\ pc' = [pc EXCEPT ![t] = "done"]
    /\ UNCHANGED <<_client_id, _client_trans_id, _ctid_lock, op, pdata,
                   response, pending, sent, sentBy, calls, completed>>

\* Lines 315-316 / 338-339: self.__check_error(response), then the return.
CheckError(t) ==
    /\ pc[t] = "check"
    /\ LET e == check_error(response[t])
       IN  result' = [result EXCEPT
                        ![t] = IF e # None THEN Raised(e)
                               ELSE Returned(ReturnValue(op[t], response[t]))]
    /\ pc' = [pc EXCEPT ![t] = "done"]
    /\ UNCHANGED <<_client_id, _client_trans_id, _ctid_lock, op, pdata,
                   response, pending, sent, sentBy, calls, completed>>

\* The call is over: its value or exception is with the caller, and the
\* locals of _get/_put are gone.
Exit(t) ==
    /\ pc[t] = "done"
    /\ pc' = [pc EXCEPT ![t] = "idle"]
    /\ op' = [op EXCEPT ![t] = None]
    /\ pdata' = [pdata EXCEPT ![t] = None]
    /\ response' = [response EXCEPT ![t] = None]
    /\ pending' = [pending EXCEPT ![t] = None]
    /\ result' = [result EXCEPT ![t] = None]
    /\ completed' = completed + 1
    /\ UNCHANGED <<_client_id, _client_trans_id, _ctid_lock, sent, sentBy,
                   calls>>

\* --------------------------------------------------------- specifications
\* Concurrent callers, each on its own Device instance.
Next ==
    \E t \in Threads :
        \/ Call(t, ConcurrentOps)
        \/ Acquire(t)
        \/ SendRequest(t)
        \/ TransportReturns(t, ConcurrentResponses)
        \/ TransportRaises(t)
        \/ Increment(t)
        \/ Release(t)
        \/ CheckError(t)
        \/ Exit(t)

Spec == Init /\ [][Next]_vars

\* The liveness environment: thread 1 reads through _get, every other
\* thread writes through _put, against the same responses.
FairOps(t) == IF t = 1 THEN {ConnectedGet} ELSE {Action("home", <<>>)}

FairNext ==
    \E t \in Threads :
        \/ Call(t, FairOps(t))
        \/ Acquire(t)
        \/ SendRequest(t)
        \/ TransportReturns(t, ConcurrentResponses)
        \/ TransportRaises(t)
        \/ Increment(t)
        \/ Release(t)
        \/ CheckError(t)
        \/ Exit(t)

\* Fair scheduling: every thread that can take a step eventually does, a
\* thread waiting for the lock gets it if it is free again and again, and
\* every transport call eventually returns or raises.
Fairness ==
    \A t \in Threads :
        /\ SF_vars(Acquire(t))
        /\ WF_vars(SendRequest(t))
        /\ WF_vars(TransportReturns(t, ConcurrentResponses) \/ TransportRaises(t))
        /\ WF_vars(Increment(t))
        /\ WF_vars(Release(t))
        /\ WF_vars(CheckError(t))
        /\ WF_vars(Exit(t))

FairSpec == Init /\ [][FairNext]_vars /\ Fairness

\* One caller, every public operation and every response of the model.
SeqNext ==
    \/ Call(1, AllOps)
    \/ Acquire(1)
    \/ SendRequest(1)
    \/ TransportReturns(1, AllResponses)
    \/ TransportRaises(1)
    \/ Increment(1)
    \/ Release(1)
    \/ CheckError(1)
    \/ Exit(1)

SeqSpec == Init /\ [][SeqNext]_vars

\* ============================================================ properties
\* The number a ClientTransactionID / ClientID field carries.
IdValue(s) == CHOOSE n \in 0..65535 : DecStr(n) = s

Failed(t) == pc[t] = "done" /\ result[t].kind = "raise"

\* C1: no two requests handed to the transport carry the same
\* ClientTransactionID.
C1_DistinctTransactionIds ==
    \A i, j \in DOMAIN sent :
        i # j => sent[i].ClientTransactionID # sent[j].ClientTransactionID

\* C2: in the order in which requests are handed to the transport, each
\* request's ClientTransactionID is strictly greater than that of every
\* request dispatched before it.
C2_TransactionIdsIncrease ==
    \A i, j \in DOMAIN sent :
        i < j => IdValue(sent[i].ClientTransactionID)
                   < IdValue(sent[j].ClientTransactionID)

\* C5: every call changes the counter exactly once, whatever its outcome, so
\* when no call is in progress the counter is 1 plus the number of calls made.
C5_CounterCountsCalls ==
    (\A t \in Threads : pc[t] = "idle") => _client_trans_id = 1 + completed

\* C6: no step of any call changes _client_id, and every request handed to
\* the transport carries that one value as its ClientID.
C6_ClientIdFixed ==
    [][/\ _client_id' = _client_id
       /\ \A i \in DOMAIN sent' : sent'[i].ClientID = DecStr(_client_id)]_vars

\* Two requests have been sent and one call has failed.
C6_Witness ==
    /\ Len(sent) >= 2
    /\ \E t \in Threads : Failed(t)

\* C9: a thread is inside its transport call only while it holds
\* _ctid_lock, so at most one transport call is in flight at any time.
C9_OneRequestInFlight ==
    /\ \A t \in Threads : pc[t] = "inflight" => _ctid_lock = t
    /\ Cardinality({t \in Threads : pc[t] = "inflight"}) <= 1

\* One thread is inside its transport call while another thread, working on
\* another Device instance, waits for the lock.
C9_Witness ==
    \E t, u \in Threads :
        /\ t # u
        /\ pc[t] = "inflight"
        /\ pc[u] = "acquire"
        /\ DeviceOf(t) # DeviceOf(u)

\* C10: a thread that has left _get/_put, by return or by raise, does not
\* hold _ctid_lock; and under fair scheduling every thread waiting for the
\* lock eventually acquires it.
C10_LockReleased ==
    /\ [](\A t \in Threads : pc[t] \in {"idle", "check", "done"} => _ctid_lock # t)
    /\ \A t \in Threads : (pc[t] = "acquire") ~> (_ctid_lock = t)

\* A call has ended with the transport's own exception, the lock is free,
\* and another thread is waiting for it.
C10_Witness ==
    \E t, u \in Threads :
        /\ Failed(t)
        /\ result[t].exc = TransportException.exc
        /\ _ctid_lock = 0
        /\ pc[u] = "acquire"

\* The error check has run on thread t's response.
Checked(t) == pc[t] = "done" /\ response[t] # None

\* The table of reserved Alpaca error numbers.
ExpectedException(n) ==
    CASE n = 1024 -> "NotImplementedException"
      [] n = 1025 -> "InvalidValueException"
      [] n = 1026 -> "ValueNotSetException"
      [] n = 1031 -> "NotConnectedException"
      [] n = 1032 -> "ParkedException"
      [] n = 1033 -> "SlavedException"
      [] n = 1035 -> "InvalidOperationException"
      [] n = 1036 -> "ActionNotImplementedException"
      [] n \in 1280..4095 -> "DriverException"
      [] OTHER -> "UnknownAscomException"

\* C3: for a response with status 200-203 the error check is decided by
\* ErrorNumber alone: 0 raises nothing, each reserved code raises its own
\* exception, 0x500-0xFFF raises the driver exception and every other
\* non-zero code raises the unknown-error exception.
C3_ClassificationTable ==
    \A t \in Threads :
        Checked(t) /\ response[t].status_code \in 200..203 =>
            LET n == response[t].json.ErrorNumber
            IN  IF n = 0
                THEN result[t].kind = "return"
                ELSE /\ result[t].kind = "raise"
                     /\ result[t].exc = ExpectedException(n)

\* The error check has raised the invalid-operation exception for a 203
\* response carrying the reserved code 0x40B.
C3_Witness ==
    \E t \in Threads :
        /\ Checked(t)
        /\ response[t].status_code = 203
        /\ response[t].json.ErrorNumber = 1035
        /\ result[t].kind = "raise"
        /\ result[t].exc = "InvalidOperationException"

\* C4: a response with status 200-203 is judged by the ErrorNumber of its
\* body alone; a response with any other status fails with the transport
\* error carrying the status code and the body, whatever its ErrorNumber;
\* a call ends with one exception or one value, never both.
C4_StatusContract ==
    \A t \in Threads :
        Checked(t) =>
            LET r == response[t]
                n == r.json.ErrorNumber
            IN  IF r.status_code \in 200..203
                THEN /\ (result[t].kind = "raise") <=> (n # 0)
                     /\ result[t].kind = "raise" =>
                          /\ result[t].exc # "AlpacaRequestException"
                          /\ result[t].args = <<n, r.json.ErrorMessage>>
                ELSE /\ result[t].kind = "raise"
                     /\ result[t].exc = "AlpacaRequestException"
                     /\ result[t].args[1] = r.status_code
                     /\ result[t].args[2] = r.text \o " (URL " \o r.url \o ")"

\* A 204 response whose body reports no error has failed with the transport
\* error.
C4_Witness ==
    \E t \in Threads :
        /\ Checked(t)
        /\ response[t].status_code = 204
        /\ response[t].json.ErrorNumber = 0
        /\ result[t].kind = "raise"
        /\ result[t].exc = "AlpacaRequestException"

\* C7: a call hands exactly one request to the transport: never a second
\* one, and one by the time it ends; an error raised by the error check
\* reaches the caller with the response's own code and message (or status).
C7_OneRequestNoRetry ==
    \A t \in Threads :
        /\ sentBy[t] <= 1
        /\ pc[t] \in {"inflight", "increment", "finally", "check", "done"} =>
             sentBy[t] = 1
        /\ Checked(t) /\ result[t].kind = "raise" =>
             \/ result[t].args = <<response[t].json.ErrorNumber,
                                   response[t].json.ErrorMessage>>
             \/ result[t].args[1] = response[t].status_code

\* A call has ended in a classified protocol error after one request.
C7_Witness ==
    \E t \in Threads :
        /\ Checked(t)
        /\ result[t].kind = "raise"
        /\ result[t].exc = "ParkedException"
        /\ sentBy[t] = 1

\* The form fields of an Action request, as the code sends them.
ActionFields == {"ClientID", "ClientTransactionID", "Action", "Parameters"}

\* Thread t runs Action and its request has been handed to the transport.
ActionSent(t) ==
    /\ op[t] # None
    /\ op[t].name = "Action"
    /\ pc[t] \in {"inflight", "increment", "finally", "check", "done"}

\* C8 (as amended): Action sends one PUT request to the attribute 'action'
\* whose form fields are exactly ClientID, ClientTransactionID, Action (the
\* action name) and Parameters (the parameters), and the call returns the
\* Value field of the response.
C8_ActionRequest ==
    \A t \in Threads :
        ActionSent(t) =>
            /\ sentBy[t] = 1
            /\ Request(t).method = "PUT"
            /\ Request(t).url = base_url(DeviceOf(t)) \o "/action"
            /\ DOMAIN Request(t).data = ActionFields
            /\ Request(t).data.Action = op[t].args[1]
            /\ Request(t).data.Parameters = op[t].args[2]
            /\ Request(t).data.ClientTransactionID \in {DecStr(n) : n \in 1..(MaxCalls + 1)}
            /\ Request(t).data.ClientID = DecStr(_client_id)
            /\ Checked(t) /\ result[t].kind = "return" =>
                 result[t].value = response[t].json.Value

\* An Action call with parameters has returned the Value of its response.
C8_Witness ==
    \E t \in Threads :
        /\ ActionSent(t)
        /\ Checked(t)
        /\ result[t] = Returned("v")
        /\ pdata[t].Action = "slew"
        /\ pdata[t].Parameters = <<"fast">>

\* C8 (as claimed): the form fields of an Action request are exactly
\* ClientID, ClientTransactionID, ActionName and Parameters.
C8_ActionNameField ==
    \A t \in Threads :
        ActionSent(t) =>
            /\ Request(t).method = "PUT"
            /\ DOMAIN Request(t).data
                 = {"ClientID", "ClientTransactionID", "ActionName", "Parameters"}

====
